---- MODULE Spec2Model ----
(***************************************************************************)
(* unlicense/frida_exec.py: the Frida bridge of the process-control        *)
(* interface (FridaProcessController), the session bootstrap               *)
(* (spawn_and_instrument) and the message handler (_frida_callback).       *)
(*                                                                         *)
(* The driver thread runs the bootstrap and then the controller's          *)
(* operations, one at a time; every remote call of an operation is one     *)
(* step.  The dispatch thread delivers agent messages to the handler at    *)
(* any moment after the script has been loaded.                            *)
(*                                                                         *)
(* Representation.                                                         *)
(*  - A wire string that the code parses (a hexadecimal address) is a      *)
(*    sequence of one-character strings, <<"0","x","1","0">>.              *)
(*  - A byte string is a sequence of extents [base, len]: len bytes of     *)
(*    the target's memory from base.  Concatenation of byte strings is \o. *)
(*  - A dict is a function; an optional value is None or Some(v).          *)
(*  - What a call does is an outcome: Ret(v), or Raise(exc, cause).        *)
(***************************************************************************)
EXTENDS Integers, Sequences, FiniteSets, TLC

\* See issue #7: messages cannot exceed 128MiB
MAX_DATA_CHUNK_SIZE == 64 * 1024 * 1024

\* ---------------------------------------------------------------- bounds
\* Bulk reads of up to MaxChunks full chunks and one byte more.
MaxChunks == 2
\* Messages the agent posts in one run.
MaxMessages == 2

\* ------------------------------------------------------- Python values
None == [some |-> FALSE]
Some(v) == [some |-> TRUE, val |-> v]

NoCause == "None"
Ret(v) == [kind |-> "return", value |-> v]
Raise(e, c) == [kind |-> "raise", exc |-> e, cause |-> c]

Min(a, b) == IF a <= b THEN a ELSE b

\* frida.core.RPCException and the exceptions of process_control.
RPCException == "RPCException"
QueryProcessMemoryError == "QueryProcessMemoryError"
ReadProcessMemoryError == "ReadProcessMemoryError"
WriteProcessMemoryError == "WriteProcessMemoryError"
MemoryErrors == {QueryProcessMemoryError, ReadProcessMemoryError, WriteProcessMemoryError}
\* A fault of the channel that is no RPCException (the session is gone).
InvalidOperationError == "InvalidOperationError"
ChannelFaults == {RPCException, InvalidOperationError}

\* The value of each character int() takes for a digit.
DigitValue ==
    "0" :> 0 @@ "1" :> 1 @@ "2" :> 2 @@ "3" :> 3 @@ "4" :> 4 @@ "5" :> 5 @@
    "6" :> 6 @@ "7" :> 7 @@ "8" :> 8 @@ "9" :> 9 @@
    "a" :> 10 @@ "b" :> 11 @@ "c" :> 12 @@ "d" :> 13 @@ "e" :> 14 @@ "f" :> 15 @@
    "A" :> 10 @@ "B" :> 11 @@ "C" :> 12 @@ "D" :> 13 @@ "E" :> 14 @@ "F" :> 15

RECURSIVE DigitsValue(_, _, _)
DigitsValue(digits, base, acc) ==
    IF digits = <<>> THEN acc
    ELSE DigitsValue(Tail(digits), base, acc * base + DigitValue[Head(digits)])

\* Python's int(s, base) on a string of digits with an optional 0x prefix:
\* Ret(n), or Raise(ValueError) for an empty or malformed string.
int(s, base) ==
    LET prefixed == /\ base = 16
                    /\ Len(s) >= 2
                    /\ s[1] = "0"
                    /\ s[2] \in {"x", "X"}
        digits == IF prefixed THEN SubSeq(s, 3, Len(s)) ELSE s
        valid == /\ digits # <<>>
                 /\ \A i \in 1..Len(digits) :
                        /\ digits[i] \in DOMAIN DigitValue
                        /\ DigitValue[digits[i]] < base
    IN  IF valid THEN Ret(DigitsValue(digits, base, 0))
        ELSE Raise("ValueError", NoCause)

\* Architecture of process_control.
X86_32 == "Architecture.X86_32"
X86_64 == "Architecture.X86_64"

\* The bug of a default architecture in place of the ValueError.
_str_to_architecture_default(frida_arch) ==
    IF frida_arch = "x64" THEN Ret(X86_64) ELSE Ret(X86_32)

_str_to_architecture(frida_arch) ==
    IF frida_arch = "ia32" THEN Ret(X86_32)
    ELSE IF frida_arch = "x64" THEN Ret(X86_64)
    ELSE Raise("ValueError", NoCause)

\* --------------------------------------------------------- the handler
\* The bug of a handler that asks the agent for the exports when the entry
\* point is reached.
Handled_enumerating(n, l, o) ==
    [notified |-> n, logged |-> l, outcome |-> o,
     rpcs |-> IF n = <<>> THEN <<>>
              ELSE <<[name |-> "enumerate_exported_functions", args |-> <<>>,
                      reply |-> Ret(<<>>)]>>]

\* What one run of the handler does: the calls of notify_oep_reached it
\* makes (notified), the records it logs (logged), the remote calls it
\* issues (rpcs) and how it ends (outcome).
Handled(n, l, o) == [notified |-> n, logged |-> l, rpcs |-> <<>>, outcome |-> o]

\* The bug of the two arguments in the other order.
oep_arguments_swapped(payload) ==
    <<int(payload["OEP"], 16).value, int(payload["BASE"], 16).value>>

\* The arguments the handler calls notify_oep_reached with:
\* (int(payload['BASE'], 16), int(payload['OEP'], 16)).
oep_arguments(payload) ==
    <<int(payload["BASE"], 16).value, int(payload["OEP"], 16).value>>

_frida_callback(message) ==
    IF "type" \notin DOMAIN message
    THEN Handled(<<>>, 0, Raise("KeyError", NoCause))
    ELSE IF message["type"] = "error"
    THEN IF "stack" \in DOMAIN message
         THEN Handled(<<>>, 2, Ret(None))
         ELSE Handled(<<>>, 1, Raise("KeyError", NoCause))
    ELSE IF message["type"] = "send" /\ "payload" \notin DOMAIN message
    THEN Handled(<<>>, 0, Raise("KeyError", NoCause))
    ELSE IF /\ message["type"] = "send"
            /\ "event" \in DOMAIN message["payload"]
            /\ message["payload"]["event"] = "oep_reached"
    THEN LET payload == message["payload"] IN
         IF "BASE" \notin DOMAIN payload
         THEN Handled(<<>>, 0, Raise("KeyError", NoCause))
         ELSE IF int(payload["BASE"], 16).kind = "raise"
         THEN Handled(<<>>, 0, int(payload["BASE"], 16))
         ELSE IF "OEP" \notin DOMAIN payload
         THEN Handled(<<>>, 0, Raise("KeyError", NoCause))
         ELSE IF int(payload["OEP"], 16).kind = "raise"
         THEN Handled(<<>>, 0, int(payload["OEP"], 16))
         ELSE Handled(<<oep_arguments(payload)>>, 0, Ret(None))
    ELSE Handled(<<>>, 0, Raise("NotImplementedError", NoCause))

\* ------------------------------------------------------------ the agent
\* The peer's side of each remote call and of each engine call: the
\* outcomes it can produce.  A remote call can fault with RPCException (the
\* agent threw) or with another exception of the channel.
RpcFaults == {Raise(f, NoCause) : f \in ChannelFaults}

\* The targets the agent can run in: what its three self-description calls
\* report.
Targets ==
    { [arch |-> "ia32", pointer_size |-> 4, page_size |-> 4096],
      [arch |-> "x64", pointer_size |-> 8, page_size |-> 4096],
      [arch |-> "arm64", pointer_size |-> 8, page_size |-> 16384],
      [arch |-> "IA32", pointer_size |-> 4, page_size |-> 4096] }

\* The executable given to spawn_and_instrument: str(exe_path), exe_path.name.
ExePath == [str |-> "C:/samples/packed.exe", name |-> "packed.exe"]
Pid == 1234

\* -------------------------------------------------------------- state
VARIABLES
    pc,          \* where the driver thread is
    agent,       \* the target the agent runs in (one of Targets)
    engine,      \* what the bootstrap has done to the target and the script
    controller,  \* the FridaProcessController: None until constructed
    cache,       \* controller._exported_functions_cache: None or Some(dict)
    frame,       \* the locals of the running operation
    result,      \* the last finished call of the driver thread and its outcome
    rpcLog,      \* the remote calls returned since the running call began
    returned,    \* the mapping enumerate_exported_functions last returned
    handled,     \* the handler's last run: the message, what it did, and
                 \* whether a call of the driver was in flight (midcall)
    cbLog,       \* every call of notify_oep_reached so far, in order
    delivered    \* the number of messages delivered so far

vars == <<pc, agent, engine, controller, cache, frame, result, rpcLog,
          returned, handled, cbLog, delivered>>

driverVars == <<pc, engine, controller, cache, frame, result, rpcLog, returned>>
handlerVars == <<handled, cbLog, delivered>>

Rpc(name, args, reply) == [name |-> name, args |-> args, reply |-> reply]
NoFrame == [op |-> "none"]
NoResult == [call |-> "none", args |-> <<>>, outcome |-> Ret(None)]
Result(call, args, outcome) == [call |-> call, args |-> args, outcome |-> outcome]

Init ==
    /\ pc = "spawn"
    /\ agent \in Targets
    /\ engine = [spawned |-> FALSE, attached |-> FALSE, script |-> "none",
                 handler |-> FALSE, tracing |-> None, resumed |-> FALSE,
                 killed |-> FALSE, detached |-> FALSE]
    /\ controller = None
    /\ cache = None
    /\ frame = NoFrame
    /\ result = NoResult
    /\ rpcLog = <<>>
    /\ returned = None
    /\ handled = [message |-> [type |-> "none"], did |-> Handled(<<>>, 0, Ret(None)),
                  midcall |-> FALSE]
    /\ cbLog = <<>>
    /\ delivered = 0

\* ------------------------------------------------ spawn_and_instrument
\* The bug of a bootstrap that swallows the fault of a step and goes on
\* to resume the target.
BootFails_swallowed(exc) ==
    /\ pc' = "resume"
    /\ UNCHANGED result

\* A step of the bootstrap that faults: the exception leaves
\* spawn_and_instrument, nothing after the step runs.
BootFails(exc) ==
    /\ pc' = "failed"
    /\ result' = Result("spawn_and_instrument", <<ExePath>>, exc)

\* A step of the bootstrap that only calls the engine.
EngineStep(fault, field, value, next) ==
    /\ \/ /\ engine' = [engine EXCEPT ![field] = value]
          /\ pc' = next
          /\ UNCHANGED result
       \/ /\ BootFails(Raise(fault, NoCause))
          /\ UNCHANGED engine
    /\ UNCHANGED <<agent, controller, cache, frame, rpcLog, returned>>
    /\ UNCHANGED handlerVars

\* pid = frida.spawn((str(exe_path), ))
spawn ==
    /\ pc = "spawn"
    /\ EngineStep("ExecutableNotFoundError", "spawned", TRUE, "attach")

\* session = frida.attach(pid)
attach ==
    /\ pc = "attach"
    /\ EngineStep("ProcessNotFoundError", "attached", TRUE, "open_text")

\* frida_js = resources.open_text("unlicense.resources", "frida.js").read()
open_text ==
    /\ pc = "open_text"
    /\ EngineStep("FileNotFoundError", "script", "none", "create_script")

\* script = session.create_script(frida_js)
create_script ==
    /\ pc = "create_script"
    /\ EngineStep("InvalidArgumentError", "script", "created", "on")

\* The bug of a bootstrap that never installs the handler.
on_omitted ==
    /\ pc = "on"
    /\ pc' = "load"
    /\ UNCHANGED <<agent, engine, controller, cache, frame, result, rpcLog, returned>>
    /\ UNCHANGED handlerVars

\* script.on('message', functools.partial(_frida_callback, notify_oep_reached))
on ==
    /\ pc = "on"
    /\ EngineStep("TypeError", "handler", TRUE, "load")

\* script.load()
load ==
    /\ pc = "load"
    /\ EngineStep("InvalidOperationError", "script", "loaded", "get_architecture")

\* frida.resume(pid); return process_controller
resume ==
    /\ pc = "resume"
    /\ \/ /\ engine' = [engine EXCEPT !.resumed = TRUE]
          /\ pc' = "done"
          /\ result' = Result("spawn_and_instrument", <<ExePath>>, Ret(controller))
       \/ /\ BootFails(Raise("InvalidOperationError", NoCause))
          /\ UNCHANGED engine
    /\ UNCHANGED <<agent, controller, cache, frame, rpcLog, returned>>
    /\ UNCHANGED handlerVars

\* A remote call of the bootstrap: it is logged with its reply; a fault
\* leaves spawn_and_instrument as it is.
BootRpc(name, args, reply) ==
    /\ rpcLog' = Append(rpcLog, Rpc(name, args, reply))
    /\ UNCHANGED <<agent, cache, returned>>
    /\ UNCHANGED handlerVars

\* FridaProcessController.__init__: the arguments of super().__init__ are
\* evaluated in order, so an unrecognized architecture ends the construction
\* before the pointer size is asked for.
get_architecture ==
    /\ pc = "get_architecture"
    /\ \E reply \in {Ret(agent.arch)} \cup RpcFaults :
        /\ BootRpc("get_architecture", <<>>, reply)
        /\ LET arch == IF reply.kind = "raise" THEN reply
                       ELSE _str_to_architecture(reply.value)
           IN  IF arch.kind = "raise"
               THEN BootFails(arch) /\ UNCHANGED frame
               ELSE /\ pc' = "get_pointer_size"
                    /\ frame' = [op |-> "__init__", architecture |-> arch.value]
                    /\ UNCHANGED result
        /\ UNCHANGED <<engine, controller>>

get_pointer_size ==
    /\ pc = "get_pointer_size"
    /\ \E reply \in {Ret(agent.pointer_size)} \cup RpcFaults :
        /\ BootRpc("get_pointer_size", <<>>, reply)
        /\ IF reply.kind = "raise"
           THEN BootFails(reply) /\ frame' = NoFrame
           ELSE /\ pc' = "get_page_size"
                /\ frame' = [op |-> "__init__", architecture |-> frame.architecture,
                             pointer_size |-> reply.value]
                /\ UNCHANGED result
        /\ UNCHANGED <<engine, controller>>

\* The bug of the two sizes passed to super().__init__ in the other order.
NewController_sizes_swapped(architecture, pointer_size, page_size) ==
    [pid |-> Pid, main_module_name |-> ExePath.name,
     architecture |-> architecture, pointer_size |-> page_size,
     page_size |-> pointer_size]

\* The fields super().__init__ and __init__ set.
NewController(architecture, pointer_size, page_size) ==
    [pid |-> Pid, main_module_name |-> ExePath.name,
     architecture |-> architecture, pointer_size |-> pointer_size,
     page_size |-> page_size]

\* The last argument, then super().__init__ and the controller's own
\* fields: the export cache starts as None.
get_page_size ==
    /\ pc = "get_page_size"
    /\ \E reply \in {Ret(agent.page_size)} \cup RpcFaults :
        /\ BootRpc("get_page_size", <<>>, reply)
        /\ frame' = NoFrame
        /\ IF reply.kind = "raise"
           THEN BootFails(reply) /\ UNCHANGED controller
           ELSE /\ pc' = "setup_oep_tracing"
                /\ controller' = Some(NewController(frame.architecture,
                                                    frame.pointer_size, reply.value))
                /\ UNCHANGED result
        /\ UNCHANGED engine

\* frida_rpc.setup_oep_tracing(exe_path.name)
setup_oep_tracing ==
    /\ pc = "setup_oep_tracing"
    /\ \E reply \in {Ret(None)} \cup RpcFaults :
        /\ BootRpc("setup_oep_tracing", <<ExePath.name>>, reply)
        /\ IF reply.kind = "raise"
           THEN BootFails(reply) /\ UNCHANGED engine
           ELSE /\ pc' = "resume"
                /\ engine' = [engine EXCEPT !.tracing = Some(ExePath.name)]
                /\ UNCHANGED result
        /\ UNCHANGED <<controller, frame>>

\* ------------------------------------------- the controller's operations
\* The arguments the driver calls the operations with.
Addresses == {4096, 8192}
Sizes ==
    {0, 1, MAX_DATA_CHUNK_SIZE - 1, MAX_DATA_CHUNK_SIZE, MAX_DATA_CHUNK_SIZE + 1}
    \cup {k * MAX_DATA_CHUNK_SIZE : k \in 2..MaxChunks}
    \cup {k * MAX_DATA_CHUNK_SIZE + 1 : k \in 2..MaxChunks}
WriteData == {<<>>, <<144, 144>>}
Protections == {"r-x", "rw-"}

\* What the agent answers.
ModuleInfo == [name |-> "packed.exe", base |-> <<"0", "x", "4", "0", "0", "0">>, size |-> 8192]
ModuleNames == {<<>>, <<"packed.exe", "ntdll.dll">>}
AllocatedAt == {<<"0", "x", "2", "0", "0", "0">>, <<"7", "f", "F", "0">>}
CodeRange == [base |-> <<"0", "x", "1", "0", "0", "0">>, size |-> 1, protection |-> "r-x"]
DataRange == [base |-> <<"2", "A", "0", "0">>, size |-> MAX_DATA_CHUNK_SIZE + 1,
              protection |-> "rw-"]
WireRanges == {CodeRange, DataRange}
RangeLists == {<<>>, <<CodeRange>>, <<CodeRange, DataRange>>, <<DataRange, CodeRange>>}
Export(address, name) == [address |-> address, name |-> name]
ExportLists ==
    { <<>>,
      <<Export(<<"0", "x", "1", "0", "0", "0">>, "start")>>,
      <<Export(<<"0", "x", "1", "0", "0", "0">>, "start"),
        Export(<<"0", "X", "2", "a">>, "init"),
        Export(<<"1", "0", "0", "0">>, "alias")>>,
      <<Export(<<"0", "x", "2", "a">>, "init"),
        Export(<<"0", "x", "g">>, "bad")>> }

\* The bytes the agent reads: size bytes of the target's memory at address.
AgentRead(address, size) == <<[base |-> address, len |-> size]>>

\* An operation ends: the unpacking driver has its outcome.
Done(call, args, outcome) ==
    /\ pc' = "done"
    /\ frame' = NoFrame
    /\ result' = Result(call, args, outcome)

\* An operation that is one remote call.
OneCall(call, args, reply, outcome) ==
    /\ rpcLog' = <<Rpc(call, args, reply)>>
    /\ Done(call, args, outcome)
    /\ UNCHANGED <<agent, engine, controller, cache, returned>>
    /\ UNCHANGED handlerVars

find_module_by_address_outcome(reply) == reply

find_module_by_address ==
    /\ pc = "idle"
    /\ \E address \in Addresses, reply \in {Ret(None), Ret(Some(ModuleInfo))} \cup RpcFaults :
        OneCall("find_module_by_address", <<address>>, reply,
                find_module_by_address_outcome(reply))

enumerate_modules_outcome(reply) == reply

enumerate_modules ==
    /\ pc = "idle"
    /\ \E reply \in {Ret(l) : l \in ModuleNames} \cup RpcFaults :
        OneCall("enumerate_modules", <<>>, reply, enumerate_modules_outcome(reply))

\* return int(buffer_addr, 16)
allocate_process_memory_outcome(reply) ==
    IF reply.kind = "raise" THEN reply ELSE int(reply.value, 16)

allocate_process_memory ==
    /\ pc = "idle"
    /\ \E size \in {4096}, near \in Addresses, reply \in {Ret(a) : a \in AllocatedAt} \cup RpcFaults :
        OneCall("allocate_process_memory", <<size, near>>, reply,
                allocate_process_memory_outcome(reply))

\* The bug of a raise without "from e": the cause is lost.
query_memory_protection_without_cause(reply) ==
    IF reply.kind = "raise" /\ reply.exc = RPCException
    THEN Raise(QueryProcessMemoryError, NoCause)
    ELSE reply

\* except frida.core.RPCException as e: raise QueryProcessMemoryError from e
query_memory_protection_outcome(reply) ==
    IF reply.kind = "raise" /\ reply.exc = RPCException
    THEN Raise(QueryProcessMemoryError, reply.exc)
    ELSE reply

query_memory_protection ==
    /\ pc = "idle"
    /\ \E address \in Addresses, reply \in {Ret(p) : p \in Protections} \cup RpcFaults :
        OneCall("query_memory_protection", <<address>>, reply,
                query_memory_protection_outcome(reply))

set_memory_protection_outcome(reply) == reply

set_memory_protection ==
    /\ pc = "idle"
    /\ \E address \in Addresses, reply \in {Ret(TRUE), Ret(FALSE)} \cup RpcFaults :
        OneCall("set_memory_protection", <<address, 4096, "rwx">>, reply,
                set_memory_protection_outcome(reply))

\* The bug of "except Exception": every fault becomes a write error.
write_process_memory_catch_all(reply) ==
    IF reply.kind = "raise" THEN Raise(WriteProcessMemoryError, reply.exc)
    ELSE Ret(None)

\* The call's value is dropped; except frida.core.RPCException as e: raise
\* WriteProcessMemoryError from e
write_process_memory_outcome(reply) ==
    IF reply.kind = "raise" /\ reply.exc = RPCException
    THEN Raise(WriteProcessMemoryError, reply.exc)
    ELSE IF reply.kind = "raise" THEN reply
    ELSE Ret(None)

write_process_memory ==
    /\ pc = "idle"
    /\ \E address \in Addresses, data \in WriteData, reply \in {Ret(None)} \cup RpcFaults :
        OneCall("write_process_memory", <<address, data>>, reply,
                write_process_memory_outcome(reply))

\* ---------------------------------------------------- chunked bulk read
\* The bug of a request for all that is left, however much it is.
chunk_size_unbounded(size, offset) == size - offset

\* chunk_size = min(MAX_DATA_CHUNK_SIZE, size - offset)
chunk_size(size, offset) == Min(MAX_DATA_CHUNK_SIZE, size - offset)

\* range(0, size, MAX_DATA_CHUNK_SIZE): the offset after offset, and whether
\* the range holds it.
next_offset(offset) == offset + MAX_DATA_CHUNK_SIZE
in_range(offset, size) == offset < size

\* The bug of "=" for "+=": the buffer holds the last chunk only.
read_data_replaced(read_data, chunk) == chunk

\* read_data += bytearray(chunk)
read_data_plus(read_data, chunk) == read_data \o chunk

\* The bug of a range lookup that gives the ranges it had converted when a
\* read faulted.
read_process_memory_fault_converted(reply) ==
    IF frame.op = "read_process_memory"
    THEN Raise(ReadProcessMemoryError, reply.exc)
    ELSE Ret(frame.converted)

\* The bug of returning what was read before the fault.
read_process_memory_fault_partial(reply) == Ret(frame.read_data)

\* except frida.core.RPCException as e: raise ReadProcessMemoryError from e
read_process_memory_fault(reply) ==
    IF reply.exc = RPCException
    THEN Raise(ReadProcessMemoryError, reply.exc)
    ELSE reply

\* The bug of a MemoryRange built without the data that was read.
MemoryRange_without_data(base, size, protection, data) ==
    [base |-> base, size |-> size, protection |-> protection, data |-> None]

MemoryRange(base, size, protection, data) ==
    [base |-> base, size |-> size, protection |-> protection, data |-> data]

\* _frida_range_to_mem_range(r, with_data) over value[i], value[i+1], ...
\* (list(map(convert_range, value))), as far as it runs with no remote
\* call: to the end of value, to a base that int() refuses, or to the first
\* chunk of a range's read.
RECURSIVE convert_ranges(_, _, _, _)
convert_ranges(value, i, converted, with_data) ==
    IF i > Len(value) THEN [at |-> "done", outcome |-> Ret(converted)]
    ELSE LET r == value[i]
             base == int(r.base, 16)
         IN  IF base.kind = "raise" THEN [at |-> "done", outcome |-> base]
             ELSE IF with_data /\ in_range(0, r.size)
             THEN [at |-> "read_chunk", i |-> i, converted |-> converted,
                   address |-> base.value, size |-> r.size]
             ELSE convert_ranges(value, i + 1,
                      Append(converted,
                             MemoryRange(base.value, r.size, r.protection,
                                         IF with_data THEN Some(<<>>) ELSE None)),
                      with_data)

\* What the operation returns once its ranges are converted:
\* find_range_by_address the one MemoryRange, enumerate_module_ranges the list.
ranges_outcome(op, outcome) ==
    IF op = "find_range_by_address" /\ outcome.kind = "return"
    THEN Ret(Some(outcome.value[1]))
    ELSE outcome

ReadFrame(op, args, value, i, converted, address, size) ==
    [op |-> op, args |-> args, value |-> value, i |-> i, converted |-> converted,
     address |-> address, size |-> size, offset |-> 0, read_data |-> <<>>]

\* The conversion of the ranges goes on: it is over, or a read begins.
Converting(op, args, value, c) ==
    IF c.at = "done"
    THEN Done(op, args, ranges_outcome(op, c.outcome))
    ELSE /\ pc' = "read_chunk"
         /\ frame' = ReadFrame(op, args, value, c.i, c.converted, c.address, c.size)
         /\ result' = NoResult

read_process_memory ==
    /\ pc = "idle"
    /\ \E address \in Addresses, size \in Sizes :
        IF in_range(0, size)
        THEN /\ pc' = "read_chunk"
             /\ frame' = ReadFrame("read_process_memory", <<address, size>>, <<>>, 0,
                                   <<>>, address, size)
             /\ result' = NoResult
        ELSE Done("read_process_memory", <<address, size>>, Ret(<<>>))
    /\ rpcLog' = <<>>
    /\ UNCHANGED <<agent, engine, controller, cache, returned>>
    /\ UNCHANGED handlerVars

\* The bug of a loop that asks once more for a chunk that faulted.
read_chunk_retrying ==
    /\ pc = "read_chunk"
    /\ LET address == frame.address + frame.offset
           size == chunk_size(frame.size, frame.offset)
       IN  \E reply \in {Ret(AgentRead(address, size))} \cup RpcFaults :
            /\ rpcLog' = Append(rpcLog, Rpc("read_process_memory", <<address, size>>, reply))
            /\ IF reply.kind = "raise" /\ rpcLog # <<>> /\ rpcLog[Len(rpcLog)].reply.kind = "raise"
               THEN Done(frame.op, frame.args, read_process_memory_fault(reply))
               ELSE IF reply.kind = "raise"
               THEN UNCHANGED <<pc, frame, result>>
               ELSE LET read_data == read_data_plus(frame.read_data, reply.value)
                        offset == next_offset(frame.offset)
                    IN  IF in_range(offset, frame.size)
                        THEN /\ frame' = [frame EXCEPT !.offset = offset,
                                                       !.read_data = read_data]
                             /\ UNCHANGED <<pc, result>>
                        ELSE Done(frame.op, frame.args, Ret(read_data))
    /\ UNCHANGED <<agent, engine, controller, cache, returned>>
    /\ UNCHANGED handlerVars

\* One turn of the loop of read_process_memory, in read_process_memory
\* itself or nested in the conversion of a range.
read_chunk ==
    /\ pc = "read_chunk"
    /\ LET address == frame.address + frame.offset
           size == chunk_size(frame.size, frame.offset)
       IN  \E reply \in {Ret(AgentRead(address, size))} \cup RpcFaults :
            /\ rpcLog' = Append(rpcLog, Rpc("read_process_memory", <<address, size>>, reply))
            /\ IF reply.kind = "raise"
               THEN Done(frame.op, frame.args, read_process_memory_fault(reply))
               ELSE LET read_data == read_data_plus(frame.read_data, reply.value)
                        offset == next_offset(frame.offset)
                    IN  IF in_range(offset, frame.size)
                        THEN /\ frame' = [frame EXCEPT !.offset = offset,
                                                       !.read_data = read_data]
                             /\ UNCHANGED <<pc, result>>
                        ELSE IF frame.op = "read_process_memory"
                        THEN Done(frame.op, frame.args, Ret(read_data))
                        ELSE Converting(frame.op, frame.args, frame.value,
                                 convert_ranges(frame.value, frame.i + 1,
                                     Append(frame.converted,
                                            MemoryRange(frame.address, frame.size,
                                                        frame.value[frame.i].protection,
                                                        Some(read_data))),
                                     TRUE))
    /\ UNCHANGED <<agent, engine, controller, cache, returned>>
    /\ UNCHANGED handlerVars

\* ------------------------------------------------------- range lookups
find_range_by_address ==
    /\ pc = "idle"
    /\ \E address \in Addresses, include_data \in BOOLEAN,
          reply \in {Ret(None)} \cup {Ret(Some(r)) : r \in WireRanges} \cup RpcFaults :
        /\ rpcLog' = <<Rpc("find_range_by_address", <<address>>, reply)>>
        /\ IF reply.kind = "raise" \/ reply.value = None
           THEN Done("find_range_by_address", <<address, include_data>>, reply)
           ELSE Converting("find_range_by_address", <<address, include_data>>,
                           <<reply.value.val>>,
                           convert_ranges(<<reply.value.val>>, 1, <<>>, include_data))
    /\ UNCHANGED <<agent, engine, controller, cache, returned>>
    /\ UNCHANGED handlerVars

enumerate_module_ranges ==
    /\ pc = "idle"
    /\ \E include_data \in BOOLEAN, reply \in {Ret(l) : l \in RangeLists} \cup RpcFaults :
        /\ rpcLog' = <<Rpc("enumerate_module_ranges", <<ExePath.name>>, reply)>>
        /\ IF reply.kind = "raise"
           THEN Done("enumerate_module_ranges", <<ExePath.name, include_data>>, reply)
           ELSE Converting("enumerate_module_ranges", <<ExePath.name, include_data>>,
                           reply.value,
                           convert_ranges(reply.value, 1, <<>>, include_data))
    /\ UNCHANGED <<agent, engine, controller, cache, returned>>
    /\ UNCHANGED handlerVars

\* -------------------------------------------------------- export cache
\* The bug of a cache that update_cache does not refresh.
must_enumerate_once(cached, update_cache) == cached = None

\* if self._exported_functions_cache is None or update_cache
must_enumerate(cached, update_cache) == cached = None \/ update_cache

\* {int(e["address"], 16): e for e in value}: a later record replaces an
\* earlier one of the same address; an address int() refuses ends it.
RECURSIVE exports_dict(_, _)
exports_dict(value, dict) ==
    IF value = <<>> THEN Ret(dict)
    ELSE LET e == Head(value)
             address == int(e.address, 16)
         IN  IF address.kind = "raise" THEN address
             ELSE exports_dict(Tail(value), (address.value :> e) @@ dict)

\* The bug of a cache that a failed enumeration empties.
cache_after_invalidating(cached, outcome) ==
    IF outcome.kind = "return" THEN Some(outcome.value) ELSE None

\* The bug of a cache that the new enumeration is merged into.
cache_after_merging(cached, outcome) ==
    IF outcome.kind # "return" THEN cached
    ELSE IF cached = None THEN Some(outcome.value)
    ELSE Some(outcome.value @@ cached.val)

\* The cache after the enumeration ended in outcome.
cache_after(cached, outcome) ==
    IF outcome.kind = "return" THEN Some(outcome.value) ELSE cached

enumerate_exported_functions ==
    /\ pc = "idle"
    /\ \E update_cache \in BOOLEAN :
        IF must_enumerate(cache, update_cache)
        THEN /\ pc' = "exports_rpc"
             /\ frame' = [op |-> "enumerate_exported_functions", args |-> <<update_cache>>]
             /\ result' = NoResult
             /\ UNCHANGED returned
        ELSE /\ Done("enumerate_exported_functions", <<update_cache>>, Ret(cache.val))
             /\ returned' = Some(cache.val)
    /\ rpcLog' = <<>>
    /\ UNCHANGED <<agent, engine, controller, cache>>
    /\ UNCHANGED handlerVars

\* The remote enumeration returns: the dict is built and only then stored.
exports_reply ==
    /\ pc = "exports_rpc"
    /\ \E reply \in {Ret(l) : l \in ExportLists} \cup RpcFaults :
        LET outcome == IF reply.kind = "raise" THEN reply
                       ELSE exports_dict(reply.value, <<>>)
        IN  /\ rpcLog' = <<Rpc("enumerate_exported_functions", <<>>, reply)>>
            /\ cache' = cache_after(cache, outcome)
            /\ returned' = IF outcome.kind = "return" THEN Some(outcome.value) ELSE returned
            /\ Done(frame.op, frame.args, outcome)
    /\ UNCHANGED <<agent, engine, controller>>
    /\ UNCHANGED handlerVars

\* The unpacking driver has taken the outcome of the call and goes on to
\* its next call on the controller.
next_call ==
    /\ pc = "done"
    /\ pc' = "idle"
    /\ result' = NoResult
    /\ rpcLog' = <<>>
    /\ UNCHANGED <<agent, engine, controller, cache, frame, returned>>
    /\ UNCHANGED handlerVars

\* frida.kill(self.pid); self._frida_session.detach().  The driver calls it
\* at most once and uses the controller no more.
terminate_process ==
    /\ pc = "idle"
    /\ \/ /\ engine' = [engine EXCEPT !.killed = TRUE, !.detached = TRUE]
          /\ result' = Result("terminate_process", <<>>, Ret(None))
       \/ /\ engine' = engine
          /\ result' = Result("terminate_process", <<>>, Raise("ProcessNotFoundError", NoCause))
    /\ pc' = "terminated"
    /\ frame' = NoFrame
    /\ rpcLog' = <<>>
    /\ UNCHANGED <<agent, controller, cache, returned>>
    /\ UNCHANGED handlerVars

\* ------------------------------------------------- the dispatch thread
OepReached(base, oep) ==
    [type |-> "send", payload |-> [event |-> "oep_reached", BASE |-> base, OEP |-> oep]]

\* The messages the agent can post: the shapes of the message protocol.
Messages ==
    { OepReached(<<"0", "x", "1", "0", "0", "0">>, <<"0", "x", "1", "2", "3", "4">>),
      OepReached(<<"4", "0", "0", "0">>, <<"0", "X", "4", "a", "B", "c">>),
      OepReached(<<"0", "x", "1", "0", "0", "0">>, <<"0", "x">>),
      [type |-> "send", payload |-> [event |-> "oep_reached",
                                     BASE |-> <<"0", "x", "1", "0", "0", "0">>]],
      [type |-> "send", payload |-> [event |-> "unknown"]],
      [type |-> "send", payload |-> [BASE |-> <<"0", "x", "1", "0", "0", "0">>,
                                     OEP |-> <<"0", "x", "1", "2", "3", "4">>]],
      [type |-> "send"],
      [type |-> "log", payload |-> [event |-> "oep_reached"]],
      [type |-> "error", description |-> "ReferenceError", stack |-> "at frida.js:1"],
      [type |-> "error", description |-> "ReferenceError"] }

\* The bug of a handler that remembers the entry points it has reported and
\* reports none twice.
Deliver_suppressing ==
    /\ engine.script = "loaded"
    /\ engine.handler
    /\ ~engine.detached
    /\ delivered < MaxMessages
    /\ \E message \in Messages :
        LET did == _frida_callback(message)
        IN  /\ handled' = [message |-> message, did |-> did,
                           midcall |-> pc \in {"read_chunk", "exports_rpc"}]
            /\ cbLog' = IF \E k \in 1..Len(cbLog) : <<cbLog[k]>> = did.notified
                        THEN cbLog ELSE cbLog \o did.notified
            /\ rpcLog' = rpcLog \o did.rpcs
    /\ delivered' = delivered + 1
    /\ UNCHANGED <<pc, agent, engine, controller, cache, frame, result, returned>>

\* The engine delivers a message to the installed handler, on its own
\* thread: notify_oep_reached records the event.
Deliver ==
    /\ engine.script = "loaded"
    /\ engine.handler
    /\ ~engine.detached
    /\ delivered < MaxMessages
    /\ \E message \in Messages :
        LET did == _frida_callback(message)
        IN  /\ handled' = [message |-> message, did |-> did,
                           midcall |-> pc \in {"read_chunk", "exports_rpc"}]
            /\ cbLog' = cbLog \o did.notified
            /\ rpcLog' = rpcLog \o did.rpcs
    /\ delivered' = delivered + 1
    /\ UNCHANGED <<pc, agent, engine, controller, cache, frame, result, returned>>

Next ==
    \/ spawn \/ attach \/ open_text \/ create_script \/ on \/ load
    \/ get_architecture \/ get_pointer_size \/ get_page_size
    \/ setup_oep_tracing \/ resume
    \/ find_module_by_address \/ find_range_by_address
    \/ enumerate_modules \/ enumerate_module_ranges
    \/ enumerate_exported_functions \/ exports_reply
    \/ allocate_process_memory \/ query_memory_protection
    \/ set_memory_protection
    \/ read_process_memory \/ read_chunk
    \/ write_process_memory
    \/ next_call
    \/ terminate_process
    \/ Deliver

Spec == Init /\ [][Next]_vars

\* ====================================================================
\* The claims.
\* ====================================================================
\* The integer each hexadecimal wire string of the model stands for.
IntegerValue ==
    <<"0", "x", "1", "0", "0", "0">> :> 4096 @@
    <<"1", "0", "0", "0">> :> 4096 @@
    <<"4", "0", "0", "0">> :> 16384 @@
    <<"2", "A", "0", "0">> :> 10752 @@
    <<"0", "x", "2", "0", "0", "0">> :> 8192 @@
    <<"7", "f", "F", "0">> :> 32752 @@
    <<"0", "x", "1", "2", "3", "4">> :> 4660 @@
    <<"0", "X", "4", "a", "B", "c">> :> 19132 @@
    <<"0", "X", "2", "a">> :> 42 @@
    <<"0", "x", "2", "a">> :> 42

OpDone(call) == pc = "done" /\ result.call = call
Returned == result.outcome.kind = "return"
Raised(exc) == result.outcome.kind = "raise" /\ result.outcome.exc = exc
ChunkReads == SelectSeq(rpcLog, LAMBDA c : c.name = "read_process_memory")
NoFault(log) == \A k \in 1..Len(log) : log[k].reply.kind = "return"
RpcFaulted(c) == c.reply.kind = "raise" /\ c.reply.exc = RPCException
CeilDiv(a, b) == (a + b - 1) \div b

RECURSIVE Replies(_)
Replies(log) ==
    IF log = <<>> THEN <<>> ELSE Head(log).reply.value \o Replies(Tail(log))

\* C1: a bulk read of size bytes in which no chunk call faults issues
\* exactly ceil(size / CHUNK) remote chunk reads, at address, address + CHUNK,
\* ... in this order, and returns the concatenation of their results in that
\* order.
C1_BulkReadIsChunkConcatenation ==
    (OpDone("read_process_memory") /\ NoFault(rpcLog)) =>
        LET address == result.args[1]
            size == result.args[2]
        IN  /\ Len(rpcLog) = CeilDiv(size, MAX_DATA_CHUNK_SIZE)
            /\ \A k \in 1..Len(rpcLog) :
                /\ rpcLog[k].name = "read_process_memory"
                /\ rpcLog[k].args[1] = address + (k - 1) * MAX_DATA_CHUNK_SIZE
            /\ Returned
            /\ result.outcome.value = Replies(rpcLog)

\* A read of two full chunks and one byte more has returned.
C1_Witness ==
    /\ OpDone("read_process_memory")
    /\ Returned
    /\ result.args[2] = 2 * MAX_DATA_CHUNK_SIZE + 1
    /\ Len(rpcLog) = 3

\* C2: when a chunk call of read_process_memory faults with an RPC fault,
\* the read ends with ReadProcessMemoryError and returns nothing, whichever
\* chunk it is; and while the read runs, the caller holds no bytes of it.
C2_FaultDiscardsPartialData ==
    /\ (OpDone("read_process_memory") /\ \E k \in 1..Len(rpcLog) : RpcFaulted(rpcLog[k])) =>
        /\ Raised(ReadProcessMemoryError)
        /\ "value" \notin DOMAIN result.outcome
    /\ (pc = "read_chunk" /\ frame.op = "read_process_memory") => result = NoResult

\* The third chunk of a read faulted after two chunks had been read.
C2_Witness ==
    /\ OpDone("read_process_memory")
    /\ Len(rpcLog) = 3
    /\ RpcFaulted(rpcLog[3])
    /\ Raised(ReadProcessMemoryError)

ExportsCall == "enumerate_exported_functions"

\* The snapshot of one enumeration: each address, as an integer, with the
\* last record of the list that has it.
SnapshotOf(value) ==
    LET at(j) == IntegerValue[value[j].address]
    IN  [a \in {at(j) : j \in 1..Len(value)} |->
            value[CHOOSE j \in 1..Len(value) :
                    at(j) = a /\ \A l \in (j + 1)..Len(value) : at(l) # a]]

\* The step in which enumerate_exported_functions is called, and its
\* update_cache.
ExportsBegins ==
    /\ pc = "idle"
    /\ \/ pc' = "exports_rpc"
       \/ pc' = "done" /\ result'.call = ExportsCall
ExportsUpdates == IF pc' = "exports_rpc" THEN frame'.args[1] ELSE result'.args[1]

\* C3: a call without update_cache made after an enumeration has succeeded
\* issues no remote call and returns the mapping the last call returned; a
\* call with update_cache, and any call before an enumeration has succeeded,
\* issues a remote enumeration; the mapping built from a remote enumeration
\* is returned and replaces the cached one.
C3_ExportCacheLifecycle ==
    [][ /\ (ExportsBegins /\ ~ExportsUpdates /\ returned # None) =>
            /\ pc' = "done"
            /\ rpcLog' = <<>>
            /\ result'.outcome.kind = "return"
            /\ result'.outcome.value = returned.val
            /\ cache' = cache
        /\ (ExportsBegins /\ (ExportsUpdates \/ returned = None)) => pc' = "exports_rpc"
        /\ (pc = "exports_rpc" /\ pc' = "done") =>
            /\ Len(rpcLog') = 1
            /\ rpcLog'[1].name = ExportsCall
            /\ result'.outcome.kind = "return" =>
                /\ result'.outcome.value = SnapshotOf(rpcLog'[1].reply.value)
                /\ cache' = Some(result'.outcome.value)
      ]_vars

\* A call without update_cache has returned a cached, non-empty mapping.
C3_Witness ==
    /\ OpDone(ExportsCall)
    /\ result.args[1] = FALSE
    /\ rpcLog = <<>>
    /\ Returned
    /\ DOMAIN result.outcome.value # {}

RangeLookups == {"find_range_by_address", "enumerate_module_ranges"}

\* The ranges the agent reported to the lookup, and the MemoryRanges the
\* lookup returned, both as lists.
ReportedRanges ==
    IF result.call = "enumerate_module_ranges" THEN rpcLog[1].reply.value
    ELSE IF rpcLog[1].reply.value = None THEN <<>>
    ELSE <<rpcLog[1].reply.value.val>>
ReturnedRanges ==
    IF result.call = "enumerate_module_ranges" THEN result.outcome.value
    ELSE IF result.outcome.value = None THEN <<>>
    ELSE <<result.outcome.value.val>>

\* data is exactly the size bytes from base on.
Covers(data, base, size) ==
    /\ data # <<>>
    /\ data[1].base = base
    /\ \A k \in 1..Len(data) : data[k].len > 0
    /\ \A k \in 1..(Len(data) - 1) : data[k + 1].base = data[k].base + data[k].len
    /\ data[Len(data)].base + data[Len(data)].len = base + size

RECURSIVE AllData(_)
AllData(ranges) ==
    IF ranges = <<>> THEN <<>> ELSE Head(ranges).data.val \o AllData(Tail(ranges))

\* C4: a range lookup that returns gives one MemoryRange for each range the
\* agent reported (none when it reported none); without include_data it
\* issues no remote read and every data is absent; with include_data the
\* data of each range is exactly its size bytes from the integer value of
\* its hexadecimal base, and nothing else is read.
C4_RangeLookupData ==
    (pc = "done" /\ result.call \in RangeLookups /\ Returned) =>
        LET include_data == result.args[2]
        IN  /\ Len(ReturnedRanges) = Len(ReportedRanges)
            /\ ReportedRanges = <<>> => ChunkReads = <<>>
            /\ \A j \in 1..Len(ReturnedRanges) :
                /\ ReturnedRanges[j].base = IntegerValue[ReportedRanges[j].base]
                /\ ReturnedRanges[j].size = ReportedRanges[j].size
                /\ ReturnedRanges[j].protection = ReportedRanges[j].protection
                /\ IF include_data
                   THEN /\ ReturnedRanges[j].data # None
                        /\ Covers(ReturnedRanges[j].data.val,
                                  IntegerValue[ReportedRanges[j].base],
                                  ReportedRanges[j].size)
                   ELSE ReturnedRanges[j].data = None
            /\ IF include_data
               THEN Replies(ChunkReads) = AllData(ReturnedRanges)
               ELSE ChunkReads = <<>>

\* enumerate_module_ranges has returned two ranges with their data.
C4_Witness ==
    /\ OpDone("enumerate_module_ranges")
    /\ Returned
    /\ result.args[2] = TRUE
    /\ Len(result.outcome.value) = 2
    /\ Len(ChunkReads) = 3

IsError(m) == "type" \in DOMAIN m /\ m["type"] = "error"
WellFormedOep(m) ==
    /\ "type" \in DOMAIN m
    /\ m["type"] = "send"
    /\ "payload" \in DOMAIN m
    /\ {"event", "BASE", "OEP"} \subseteq DOMAIN m["payload"]
    /\ m["payload"]["event"] = "oep_reached"
    /\ m["payload"]["BASE"] \in DOMAIN IntegerValue
    /\ m["payload"]["OEP"] \in DOMAIN IntegerValue
Delivery == delivered' # delivered

\* C5: the delivery of a well-formed send/oep_reached message calls the
\* callback exactly once, with (integer of BASE, integer of OEP), issues no
\* remote call and returns normally.
C5_OepReachedNotifiesOnce ==
    [][ (Delivery /\ WellFormedOep(handled'.message)) =>
            /\ cbLog' = Append(cbLog, <<IntegerValue[handled'.message["payload"]["BASE"]],
                                        IntegerValue[handled'.message["payload"]["OEP"]]>>)
            /\ handled'.did.rpcs = <<>>
            /\ rpcLog' = rpcLog
            /\ handled'.did.outcome = Ret(None)
      ]_vars

\* BASE="0x1000", OEP="0x1234" has been delivered: the callback got
\* (0x1000, 0x1234).
C5_Witness ==
    /\ delivered = 1
    /\ WellFormedOep(handled.message)
    /\ cbLog = << <<4096, 4660>> >>

\* C6, as claimed: every delivered message that is neither of type error
\* nor a well-formed send/oep_reached raises NotImplementedError and does
\* not call the callback.
C6_UnknownShapeIsNotImplemented ==
    (delivered > 0 /\ ~IsError(handled.message) /\ ~WellFormedOep(handled.message)) =>
        /\ handled.did.outcome = Raise("NotImplementedError", NoCause)
        /\ handled.did.notified = <<>>

\* C7, as claimed: every delivered message of type error, with or without
\* a stack, is only logged: no callback, nothing raised, no remote call.
C7_ErrorIsOnlyLogged ==
    (delivered > 0 /\ IsError(handled.message)) =>
        /\ handled.did.outcome = Ret(None)
        /\ handled.did.notified = <<>>
        /\ handled.did.rpcs = <<>>

\* C8: an RPC fault in query_memory_protection, write_process_memory or
\* read_process_memory is re-raised as the error of that operation with
\* the RPC fault as its cause; with no fault the operation returns what the
\* agent answered (write_process_memory returns nothing) and raises nothing.
C8_FaultsBecomeTheOperationsError ==
    /\ OpDone("query_memory_protection") =>
        /\ RpcFaulted(rpcLog[1]) =>
            result.outcome = Raise(QueryProcessMemoryError, RPCException)
        /\ rpcLog[1].reply.kind = "return" => result.outcome = rpcLog[1].reply
    /\ OpDone("write_process_memory") =>
        /\ RpcFaulted(rpcLog[1]) =>
            result.outcome = Raise(WriteProcessMemoryError, RPCException)
        /\ rpcLog[1].reply.kind = "return" => result.outcome = Ret(None)
    /\ OpDone("read_process_memory") =>
        /\ (rpcLog # <<>> /\ RpcFaulted(rpcLog[Len(rpcLog)])) =>
            result.outcome = Raise(ReadProcessMemoryError, RPCException)
        /\ NoFault(rpcLog) => (Returned /\ result.outcome.value = Replies(rpcLog))

\* query_memory_protection has ended in QueryProcessMemoryError.
C8_Witness ==
    /\ OpDone("query_memory_protection")
    /\ RpcFaulted(rpcLog[1])
    /\ Raised(QueryProcessMemoryError)

Operations ==
    {"find_module_by_address", "find_range_by_address", "enumerate_modules",
     "enumerate_module_ranges", ExportsCall, "allocate_process_memory",
     "query_memory_protection", "set_memory_protection", "read_process_memory",
     "write_process_memory"}

\* C9, as claimed: whichever operation runs, an RPC fault of one of its
\* remote calls reaches the caller as one of the three memory errors, and
\* any other exception of the channel reaches it unchanged.
C9_EveryOperationTranslatesRpcFaults ==
    (pc = "done" /\ result.call \in Operations) =>
        \A k \in 1..Len(rpcLog) :
            /\ RpcFaulted(rpcLog[k]) =>
                (result.outcome.kind = "raise" /\ result.outcome.exc \in MemoryErrors)
            /\ (rpcLog[k].reply.kind = "raise" /\ ~RpcFaulted(rpcLog[k])) =>
                result.outcome = rpcLog[k].reply

\* The error an RPC fault of a remote call is re-raised as, for the remote
\* calls that are made under a try.
ErrorOf ==
    "query_memory_protection" :> QueryProcessMemoryError @@
    "read_process_memory" :> ReadProcessMemoryError @@
    "write_process_memory" :> WriteProcessMemoryError

\* C9, amended: an RPC fault of the remote calls query_memory_protection,
\* read_process_memory (also nested in a range lookup) and
\* write_process_memory reaches the caller as the memory error of that
\* call; an RPC fault of any other remote call reaches the caller as the
\* raw RPCException; any other exception of the channel reaches the caller
\* unchanged; and the faulting call is the operation's last one.
C9_OnlyThreeCallsTranslateRpcFaults ==
    (pc = "done" /\ result.call \in Operations) =>
        \A k \in 1..Len(rpcLog) :
            rpcLog[k].reply.kind = "raise" =>
                /\ k = Len(rpcLog)
                /\ result.outcome =
                    IF ~RpcFaulted(rpcLog[k]) THEN rpcLog[k].reply
                    ELSE IF rpcLog[k].name \in DOMAIN ErrorOf
                    THEN Raise(ErrorOf[rpcLog[k].name], RPCException)
                    ELSE Raise(RPCException, NoCause)

\* find_module_by_address has ended in the raw RPCException.
C9_Witness ==
    /\ OpDone("find_module_by_address")
    /\ RpcFaulted(rpcLog[1])
    /\ Raised(RPCException)

ArchitectureOf == "ia32" :> X86_32 @@ "x64" :> X86_64
ArchitectureReported ==
    /\ rpcLog # <<>>
    /\ rpcLog[1].name = "get_architecture"
    /\ rpcLog[1].reply.kind = "return"

\* C10: "ia32" becomes 32-bit x86 and "x64" 64-bit x86, two different
\* architectures, and they do not raise; any other string raises ValueError,
\* which is none of the memory errors, ends the construction with no
\* further remote call, and leaves no controller.
C10_ArchitectureTranslation ==
    /\ X86_32 # X86_64
    /\ controller # None =>
        /\ agent.arch \in DOMAIN ArchitectureOf
        /\ controller.val.architecture = ArchitectureOf[agent.arch]
    /\ ArchitectureReported =>
        IF rpcLog[1].reply.value \in DOMAIN ArchitectureOf
        THEN /\ Len(rpcLog) = 1 => pc = "get_pointer_size"
             /\ frame.op = "__init__" =>
                    frame.architecture = ArchitectureOf[rpcLog[1].reply.value]
        ELSE /\ pc = "failed"
             /\ result.outcome = Raise("ValueError", NoCause)
             /\ "ValueError" \notin MemoryErrors
             /\ controller = None
             /\ Len(rpcLog) = 1

\* The agent reported "arm64": the bootstrap failed with ValueError.
C10_Witness ==
    /\ pc = "failed"
    /\ ArchitectureReported
    /\ rpcLog[1].reply.value = "arm64"
    /\ Raised("ValueError")
    /\ controller = None

\* The bootstrap runs, has failed, or has just returned.
Bootstrapping ==
    \/ pc \in {"spawn", "attach", "open_text", "create_script", "on", "load",
               "get_architecture", "get_pointer_size", "get_page_size",
               "setup_oep_tracing", "resume", "failed"}
    \/ pc = "done" /\ result.call = "spawn_and_instrument"

\* C11: the bootstrap does its steps in one order: spawn, attach, create
\* the script, install the handler, load, construct the controller, set up
\* the tracing with the main module's file name, resume, return.  So each
\* step has happened only if the one before it has: the script is loaded
\* only with the handler installed, and the target is resumed only with the
\* controller constructed and the tracing set up.
C11_BootstrapOrder ==
    /\ engine.attached => engine.spawned
    /\ engine.script # "none" => engine.attached
    /\ engine.handler => engine.script # "none"
    /\ engine.script = "loaded" => engine.handler
    /\ delivered > 0 => (engine.script = "loaded" /\ engine.handler)
    /\ (controller # None \/ rpcLog # <<>>) => engine.script = "loaded"
    /\ engine.tracing # None => (controller # None /\ engine.tracing = Some(ExePath.name))
    /\ (Bootstrapping /\ Len(rpcLog) = 4) =>
        (rpcLog[4].name = "setup_oep_tracing" /\ rpcLog[4].args = <<"packed.exe">>)
    /\ engine.resumed => (engine.tracing # None /\ controller # None)
    /\ (pc = "done" /\ result.call = "spawn_and_instrument") =>
        /\ engine.resumed
        /\ result.outcome = Ret(controller)
        /\ controller # None
    /\ pc \in {"idle", "read_chunk", "exports_rpc", "terminated"} => engine.resumed

\* spawn_and_instrument has returned the controller of a resumed target.
C11_Witness ==
    /\ pc = "done"
    /\ result.call = "spawn_and_instrument"
    /\ result.outcome.kind = "return"
    /\ engine.resumed
    /\ engine.tracing = Some("packed.exe")

\* C12: the message handler runs apart from the driver.  A delivery
\* issues no remote call and leaves the driver's state as it was: the call
\* in flight, its chunks and its result, the controller and the export
\* cache.  The cache changes only where the driver's
\* enumerate_exported_functions takes the agent's reply.
C12_HandlerIsIsolated ==
    [][ /\ Delivery =>
            /\ handled'.did.rpcs = <<>>
            /\ rpcLog' = rpcLog
            /\ cache' = cache
            /\ UNCHANGED <<pc, frame, result, returned, controller, engine>>
        /\ cache' # cache =>
            /\ ~Delivery
            /\ pc = "exports_rpc"
            /\ result'.call = ExportsCall ]_vars

\* An oep_reached message was handled between two chunks of a read.
C12_Witness ==
    /\ pc = "read_chunk"
    /\ frame.offset > 0
    /\ delivered > 0
    /\ handled.midcall
    /\ WellFormedOep(handled.message)
    /\ cbLog # <<>>

\* The k-th chunk request (k from 0) of a read of size bytes at address.
ChunkRequest(address, size, k) ==
    <<address + k * MAX_DATA_CHUNK_SIZE,
      Min(MAX_DATA_CHUNK_SIZE, size - k * MAX_DATA_CHUNK_SIZE)>>

RECURSIVE RequestedBytes(_)
RequestedBytes(log) ==
    IF log = <<>> THEN 0 ELSE Head(log).args[2] + RequestedBytes(Tail(log))

\* C13: in a read of size > 0 bytes the k-th chunk request asks for
\* min(CHUNK, size - k * CHUNK) bytes at address + k * CHUNK: each request
\* is of 1 to CHUNK bytes, each begins where the one before it ends, and
\* the requests of a read that returns sum to size.
C13_ChunkRequests ==
    /\ pc = "read_chunk" =>
        LET n == frame.offset \div MAX_DATA_CHUNK_SIZE
            before == Len(rpcLog) - n
        IN  /\ frame.size > 0
            /\ frame.offset = n * MAX_DATA_CHUNK_SIZE
            /\ before >= 0
            /\ \A k \in 0..(n - 1) :
                /\ rpcLog[before + k + 1].name = "read_process_memory"
                /\ rpcLog[before + k + 1].args = ChunkRequest(frame.address, frame.size, k)
    /\ (OpDone("read_process_memory") /\ result.args[2] > 0) =>
        /\ rpcLog # <<>>
        /\ \A k \in 0..(Len(rpcLog) - 1) :
            /\ rpcLog[k + 1].name = "read_process_memory"
            /\ rpcLog[k + 1].args = ChunkRequest(result.args[1], result.args[2], k)
            /\ rpcLog[k + 1].args[2] \in 1..MAX_DATA_CHUNK_SIZE
            /\ k > 0 => rpcLog[k + 1].args[1] = rpcLog[k].args[1] + rpcLog[k].args[2]
        /\ rpcLog[1].args[1] = result.args[1]
        /\ Returned => RequestedBytes(rpcLog) = result.args[2]

\* A read of one byte more than a chunk has returned: a full chunk, then
\* one byte.
C13_Witness ==
    /\ OpDone("read_process_memory")
    /\ Returned
    /\ result.args[2] = MAX_DATA_CHUNK_SIZE + 1
    /\ Len(rpcLog) = 2
    /\ rpcLog[2].args = <<result.args[1] + MAX_DATA_CHUNK_SIZE, 1>>

\* C14: a read whose chunk k (from 0) faults ends there with an exception:
\* the faulting chunk was requested once, it is the last request, and the
\* read made k + 1 requests; while a read goes on, no request has faulted.
C14_FaultEndsTheRead ==
    /\ pc = "read_chunk" => NoFault(rpcLog)
    /\ OpDone("read_process_memory") =>
        \A j \in 1..Len(rpcLog) :
            rpcLog[j].reply.kind = "raise" =>
                /\ j = Len(rpcLog)
                /\ result.outcome.kind = "raise"
                /\ rpcLog[j].args[1] = result.args[1] + (j - 1) * MAX_DATA_CHUNK_SIZE
                /\ \A i \in 1..Len(rpcLog) :
                    i # j => rpcLog[i].args[1] < rpcLog[j].args[1]

\* The second chunk of a read of three faulted: two requests were made.
C14_Witness ==
    /\ OpDone("read_process_memory")
    /\ result.args[2] = 2 * MAX_DATA_CHUNK_SIZE + 1
    /\ Len(rpcLog) = 2
    /\ rpcLog[1].reply.kind = "return"
    /\ rpcLog[2].reply.kind = "raise"
    /\ result.outcome.kind = "raise"

\* int() takes every address of the enumeration.
Convertible(value) == \A j \in 1..Len(value) : value[j].address \in DOMAIN IntegerValue

\* C15: the cache is unpopulated or is the snapshot of exactly one remote
\* enumeration, each record under the integer of its hexadecimal address,
\* never a merge of two; it is the snapshot of the most recent enumeration
\* that succeeded: that enumeration's reply replaces the cache whole, and
\* no other step changes it.
C15_CacheIsOneSnapshot ==
    /\ [](\/ cache = None
          \/ \E value \in ExportLists :
                Convertible(value) /\ cache = Some(SnapshotOf(value)))
    /\ [][ LET reply == rpcLog'[1].reply
           IN  IF /\ pc = "exports_rpc" /\ pc' = "done"
                  /\ reply.kind = "return" /\ Convertible(reply.value)
               THEN /\ cache' = Some(SnapshotOf(reply.value))
                    /\ \A a \in DOMAIN cache'.val :
                        \E j \in 1..Len(reply.value) :
                            /\ IntegerValue[reply.value[j].address] = a
                            /\ cache'.val[a] = reply.value[j]
               ELSE cache' = cache ]_vars

\* A refresh has returned an enumeration of one export: the cache holds
\* that export and nothing of an earlier enumeration.
C15_Witness ==
    /\ OpDone(ExportsCall)
    /\ result.args = <<TRUE>>
    /\ Returned
    /\ Len(rpcLog[1].reply.value) = 1
    /\ cache # None
    /\ DOMAIN cache.val = {4096}
    /\ cache.val[4096].name = "start"

\* The remote calls of the bootstrap, in their order.
BootCalls == <<"get_architecture", "get_pointer_size", "get_page_size", "setup_oep_tracing">>

\* C16: the construction of the controller makes three remote calls, once
\* each and in this order: get_architecture, get_pointer_size,
\* get_page_size; no other remote call is made before them.  The
\* controller's architecture, pointer size and page size are the values
\* those calls reported, and stay so whatever operation runs later.
C16_ConstructionQueries ==
    /\ Bootstrapping =>
        /\ Len(rpcLog) <= Len(BootCalls)
        /\ \A k \in 1..Len(rpcLog) : rpcLog[k].name = BootCalls[k]
        /\ controller = None => Len(rpcLog) <= 3
        /\ controller # None =>
            /\ Len(rpcLog) >= 3
            /\ \A k \in 1..3 : rpcLog[k].reply.kind = "return" /\ rpcLog[k].args = <<>>
            /\ rpcLog[1].reply.value \in DOMAIN ArchitectureOf
            /\ controller.val.architecture = ArchitectureOf[rpcLog[1].reply.value]
            /\ controller.val.pointer_size = rpcLog[2].reply.value
            /\ controller.val.page_size = rpcLog[3].reply.value
    /\ controller # None =>
        /\ agent.arch \in DOMAIN ArchitectureOf
        /\ controller.val.architecture = ArchitectureOf[agent.arch]
        /\ controller.val.pointer_size = agent.pointer_size
        /\ controller.val.page_size = agent.page_size

\* The controller of a 64-bit target has just been constructed: three
\* remote calls were made.
C16_Witness ==
    /\ pc = "setup_oep_tracing"
    /\ Len(rpcLog) = 3
    /\ controller # None
    /\ controller.val.architecture = X86_64
    /\ controller.val.pointer_size = 8
    /\ controller.val.page_size = 4096

\* The step in which the remote enumeration's reply is taken.
ExportsEnds == pc = "exports_rpc" /\ pc' = "done"

\* C17: the call fails exactly when the remote enumeration faults or an
\* address is not convertible, and then the cache keeps the value it had
\* before the call, as it does while the enumeration is under way; a later
\* call without update_cache returns that old snapshot with no remote call,
\* or enumerates again if the cache is unpopulated.
C17_FailedEnumerationKeepsCache ==
    [][ /\ ExportsEnds =>
            LET reply == rpcLog'[1].reply
            IN  /\ result'.outcome.kind = "raise" <=>
                    (reply.kind = "raise" \/ ~Convertible(reply.value))
                /\ result'.outcome.kind = "raise" =>
                    /\ cache' = cache
                    /\ reply.kind = "raise" => result'.outcome = reply
                    /\ reply.kind = "return" => result'.outcome.exc = "ValueError"
        /\ pc' = "exports_rpc" => cache' = cache
        /\ (ExportsBegins /\ ~ExportsUpdates) =>
            IF cache = None
            THEN pc' = "exports_rpc"
            ELSE /\ pc' = "done"
                 /\ rpcLog' = <<>>
                 /\ result'.outcome = Ret(cache.val)
                 /\ cache' = cache ]_vars

\* A refresh of a populated cache has failed on an address int() refuses:
\* the cache is still populated.
C17_Witness ==
    /\ OpDone(ExportsCall)
    /\ result.args = <<TRUE>>
    /\ rpcLog[1].reply.kind = "return"
    /\ Raised("ValueError")
    /\ cache # None
    /\ cache = returned

\* C18: a range lookup that reads the data is all or nothing.  When a read
\* nested in it faults, the lookup ends with an exception and returns no
\* MemoryRange, not those of the ranges already read either; an RPC fault
\* ends it with ReadProcessMemoryError, caused by the fault; and the
\* faulting request is the last: no range after it is read.
C18_RangeLookupIsAllOrNothing ==
    (pc = "done" /\ result.call \in RangeLookups) =>
        \A k \in 1..Len(rpcLog) :
            (rpcLog[k].name = "read_process_memory" /\ rpcLog[k].reply.kind = "raise") =>
                /\ k = Len(rpcLog)
                /\ result.outcome.kind = "raise"
                /\ "value" \notin DOMAIN result.outcome
                /\ RpcFaulted(rpcLog[k]) =>
                    /\ Raised(ReadProcessMemoryError)
                    /\ result.outcome.cause = RPCException
                /\ ~RpcFaulted(rpcLog[k]) => result.outcome = rpcLog[k].reply

\* enumerate_module_ranges read its first range, then the second chunk of
\* its second range faulted.
C18_Witness ==
    /\ OpDone("enumerate_module_ranges")
    /\ Len(rpcLog) = 4
    /\ rpcLog[2].reply.kind = "return"
    /\ rpcLog[3].reply.kind = "return"
    /\ rpcLog[2].args[1] # rpcLog[3].args[1]
    /\ RpcFaulted(rpcLog[4])
    /\ Raised(ReadProcessMemoryError)

\* C19: the handler keeps nothing from one message to the next.  Each
\* delivery of a well-formed oep_reached message invokes the callback once
\* more, with that message's addresses, after the invocations of the
\* earlier messages and whether or not the same message came before; no
\* other step invokes it.  So the invocations are as many as the well-formed
\* oep_reached messages delivered, in the order of delivery.
C19_OneInvocationPerMessage ==
    /\ [](Len(cbLog) <= delivered)
    /\ [][ IF Delivery /\ WellFormedOep(handled'.message)
           THEN /\ Len(cbLog') = Len(cbLog) + 1
                /\ SubSeq(cbLog', 1, Len(cbLog)) = cbLog
                /\ cbLog'[Len(cbLog')] =
                    <<IntegerValue[handled'.message["payload"]["BASE"]],
                      IntegerValue[handled'.message["payload"]["OEP"]]>>
           ELSE cbLog' = cbLog ]_vars

\* The same oep_reached message came twice: the callback ran twice.
C19_Witness ==
    /\ delivered = 2
    /\ Len(cbLog) = 2
    /\ cbLog[1] = cbLog[2]
    /\ WellFormedOep(handled.message)

\* C20: a fault in a step of the bootstrap leaves spawn_and_instrument as
\* the exception it is and ends the sequence: whenever a remote call of the
\* bootstrap has faulted, or the architecture reported is not recognized,
\* the bootstrap has failed at that call; a failed bootstrap has returned
\* no controller and has not resumed, killed or detached the target; and
\* after the failure no step of the bootstrap or of the controller runs.
C20_BootstrapFaultStopsTheSequence ==
    /\ [](pc = "failed" =>
            /\ result.call = "spawn_and_instrument"
            /\ result.outcome.kind = "raise"
            /\ "value" \notin DOMAIN result.outcome
            /\ ~engine.resumed
            /\ ~engine.killed
            /\ ~engine.detached)
    /\ [](Bootstrapping =>
            /\ \A k \in 1..Len(rpcLog) :
                rpcLog[k].reply.kind = "raise" =>
                    /\ pc = "failed"
                    /\ k = Len(rpcLog)
                    /\ result.outcome = rpcLog[k].reply
            /\ (ArchitectureReported /\ rpcLog[1].reply.value \notin DOMAIN ArchitectureOf) =>
                    /\ pc = "failed"
                    /\ Len(rpcLog) = 1
                    /\ controller = None)
    /\ [][ pc = "failed" => UNCHANGED driverVars ]_vars
    /\ [][ pc' = "failed" =>
            (engine' = engine /\ (pc # "failed" => controller' = controller)) ]_vars

\* The tracing setup faulted: the target is spawned and instrumented, the
\* controller was constructed, and the target is left suspended.
C20_Witness ==
    /\ pc = "failed"
    /\ engine.spawned
    /\ engine.script = "loaded"
    /\ controller # None
    /\ Len(rpcLog) = 4
    /\ rpcLog[4].reply.kind = "raise"
    /\ result.outcome.kind = "raise"
    /\ ~engine.resumed

====
